---- MODULE Spec2Model ----
(***************************************************************************)
(* A model of pdfTools: split_pdf.py (page-range parser and extractor),    *)
(* merge_to_pdf.py (directory merger) and compress_pdf2.py (Ghostscript    *)
(* front end).  File names are sequences of one-character strings, a file  *)
(* system is a function from paths <<directory, name>> to file contents,   *)
(* and a document is a sequence of pages <<origin, index>>.                *)
(***************************************************************************)
EXTENDS Integers, Sequences, FiniteSets, TLC

VARIABLES
    tool,        \* which script runs: "parse", "split", "merge", "compress"
    pc,          \* position of the script
    err,         \* the exception raised, [kind, page]
    exitCode,    \* exit status of the process (-1 while running)
    ranges_str,  \* parse_ranges: its argument
    parsed,      \* parse_ranges: [ok, ranges]
    reader,      \* split_pdf: the pages of the source document
    ranges,      \* split_pdf: [none, list]: None, or a list of <<start, end>>
    overwrite,   \* split_pdf: --overwrite
    idx,         \* split_pdf: 1-based position of the loop
    written,     \* paths handed to a completed write, in order
    dirs,        \* directories that exist
    fs,          \* the files: path -> contents
    fs0,         \* the files when the script started
    listing,     \* merge_directory: the order iterdir() enumerates input_dir
    output_pdf,  \* merge: the output path
    input_path,  \* compress: the input path
    output_path, \* compress: [none, path]: None, or the output path
    force,       \* compress: --force
    level,       \* compress: --compression
    ret          \* compress: what main() returned (-1 before)

vars == <<tool, pc, err, exitCode, ranges_str, parsed, reader, ranges, overwrite,
          idx, written, dirs, fs, fs0, listing, output_pdf, input_path,
          output_path, force, level, ret>>

\* ------------------------------------------------------------------ bounds

\* Longest --ranges string of the parser runs.
MaxSpecLen == 4

\* Most pages of the source of a by-range run.
MaxPages == 3

\* Most ranges of a by-range run.
MaxRanges == 2

\* Most pages of the source of a by-page run.
MaxBurstPages == 10

\* ------------------------------------------------------------ Python values

None == "None"

NoErr == [kind |-> "None", page |-> -1]

Raise(kind) == [kind |-> kind, page |-> -1]

Digits == <<"0", "1", "2", "3", "4", "5", "6", "7", "8", "9">>

IsDigit(c) == \E d \in 1..Len(Digits) : Digits[d] = c

DigitVal(c) == (CHOOSE d \in 1..Len(Digits) : Digits[d] = c) - 1

\* str(n) for n >= 0.
RECURSIVE Str(_)
Str(n) == IF n < 10 THEN <<Digits[n + 1]>>
          ELSE Str(n \div 10) \o <<Digits[(n % 10) + 1]>>

\* Code points of the characters the model uses.
Ord(c) ==
    CASE c = " " -> 32 [] c = "," -> 44 [] c = "-" -> 45 [] c = "." -> 46
      [] IsDigit(c) -> 48 + DigitVal(c)
      [] c = "A" -> 65 [] c = "B" -> 66 [] c = "D" -> 68 [] c = "F" -> 70
      [] c = "P" -> 80
      [] c = "_" -> 95
      [] c = "a" -> 97 [] c = "b" -> 98 [] c = "c" -> 99 [] c = "d" -> 100
      [] c = "f" -> 102 [] c = "g" -> 103 [] c = "i" -> 105 [] c = "m" -> 109
      [] c = "n" -> 110 [] c = "o" -> 111 [] c = "p" -> 112 [] c = "s" -> 115
      [] c = "t" -> 116 [] c = "x" -> 120

\* str.lower() on one character.
LowerChar(c) ==
    CASE c = "A" -> "a" [] c = "B" -> "b" [] c = "D" -> "d" [] c = "F" -> "f"
      [] c = "P" -> "p" [] OTHER -> c

Lower(s) == [i \in 1..Len(s) |-> LowerChar(s[i])]

\* s < t for Python strings: by code point, a proper prefix first.
RECURSIVE StrLess(_, _)
StrLess(s, t) ==
    IF t = <<>> THEN FALSE
    ELSE IF s = <<>> THEN TRUE
    ELSE IF Ord(s[1]) # Ord(t[1]) THEN Ord(s[1]) < Ord(t[1])
    ELSE StrLess(Tail(s), Tail(t))

\* ------------------------------------------------------------- parse_ranges

Alphabet == {"0", "1", "2", "-", ",", " ", "a"}

Strings(n) == UNION {[1..k -> Alphabet] : k \in 0..n}

\* str.strip()
RECURSIVE LStrip(_)
LStrip(s) == IF s # <<>> /\ s[1] = " " THEN LStrip(Tail(s)) ELSE s

RECURSIVE RStrip(_)
RStrip(s) == IF s # <<>> /\ s[Len(s)] = " " THEN RStrip(SubSeq(s, 1, Len(s) - 1)) ELSE s

Strip(s) == RStrip(LStrip(s))

\* Position of the first sep in s, 0 when there is none.
Find(s, sep) ==
    IF \E i \in 1..Len(s) : s[i] = sep
    THEN CHOOSE i \in 1..Len(s) : s[i] = sep /\ \A j \in 1..(i - 1) : s[j] # sep
    ELSE 0

\* s.split(sep)
RECURSIVE Split(_, _)
Split(s, sep) ==
    LET i == Find(s, sep)
    IN  IF i = 0 THEN <<s>>
        ELSE <<SubSeq(s, 1, i - 1)>> \o Split(SubSeq(s, i + 1, Len(s)), sep)

\* s.split(sep, 1)
Split1(s, sep) ==
    LET i == Find(s, sep)
    IN  IF i = 0 THEN <<s>>
        ELSE <<SubSeq(s, 1, i - 1), SubSeq(s, i + 1, Len(s))>>

RECURSIVE DecVal(_)
DecVal(s) == IF s = <<>> THEN 0
             ELSE 10 * DecVal(SubSeq(s, 1, Len(s) - 1)) + DigitVal(s[Len(s)])

AllDigits(s) == s # <<>> /\ \A i \in 1..Len(s) : IsDigit(s[i])

\* int(s): surrounding whitespace, an optional sign, then digits.
ParseInt(s) ==
    LET t == Strip(s)
    IN  IF t # <<>> /\ t[1] = "-"
        THEN IF AllDigits(Tail(t)) THEN [ok |-> TRUE, val |-> 0 - DecVal(Tail(t))]
             ELSE [ok |-> FALSE, val |-> 0]
        ELSE IF AllDigits(t) THEN [ok |-> TRUE, val |-> DecVal(t)]
             ELSE [ok |-> FALSE, val |-> 0]

\* One token of the loop body: [ok, range].
ParsePart(raw) ==
    LET part == Strip(raw)
    IN  IF Find(part, "-") # 0
        THEN LET ab == Split1(part, "-")
                 a  == ParseInt(ab[1])
                 b  == ParseInt(ab[2])
             IN  IF ~a.ok \/ ~b.ok THEN [ok |-> FALSE, range |-> <<0, 0>>]
                 ELSE IF a.val > b.val THEN [ok |-> FALSE, range |-> <<0, 0>>]
                 ELSE [ok |-> TRUE, range |-> <<a.val, b.val>>]
        ELSE LET p == ParseInt(part)
             IN  IF ~p.ok THEN [ok |-> FALSE, range |-> <<0, 0>>]
                 ELSE [ok |-> TRUE, range |-> <<p.val, p.val>>]

parse_ranges(s) ==
    LET parts == Split(s, ",")
        res   == [k \in 1..Len(parts) |-> ParsePart(parts[k])]
    IN  IF \E k \in 1..Len(parts) : ~res[k].ok
        THEN [ok |-> FALSE, ranges |-> <<>>]
        ELSE [ok |-> TRUE, ranges |-> [k \in 1..Len(parts) |-> res[k].range]]

\* -------------------------------------------------------------------- files

PdfExt == <<".", "p", "d", "f">>

\* Path.suffix: from the last dot of the name, "" when the name has none past
\* its first character.
Suffix(name) ==
    LET dotsAt == {i \in 2..Len(name) : name[i] = "."}
    IN  IF dotsAt = {} THEN <<>>
        ELSE SubSeq(name, CHOOSE i \in dotsAt : \A j \in dotsAt : j <= i, Len(name))

\* Path.stem: the name without its suffix.
Stem(name) == SubSeq(name, 1, Len(name) - Len(Suffix(name)))

Exists(f, path) == path \in DOMAIN f

NoFiles == [p \in {} |-> <<>>]

\* What a file that was there before the run holds.
OldDoc == <<<<"old", 1>>>>

\* ---------------------------------------------------------------- split_pdf

SrcName == <<"d", ".", "p", "d", "f">>

SrcPath == <<"in", SrcName>>

DestDir == "out"

\* The document of n pages that split reads.
SrcDoc(n) == [i \in 1..n |-> <<"d", i>>]

\* The loop of add_pages from 0-based index i: [ok, doc, page].
RECURSIVE AddPagesFrom(_, _, _, _)
AddPagesFrom(doc, pages, i, end) ==
    IF i >= end THEN [ok |-> TRUE, doc |-> doc, page |-> -1]
    ELSE IF i >= Len(pages) \/ i < 0 THEN [ok |-> FALSE, doc |-> doc, page |-> i + 1]
    ELSE AddPagesFrom(Append(doc, pages[i + 1]), pages, i + 1, end)

\* add_pages with the loop started at start instead of start - 1.
add_pages_from_start(pages, start, end) == AddPagesFrom(<<>>, pages, start, end)

\* add_pages naming the 0-based index of the page out of bounds.
add_pages_index_named(pages, start, end) ==
    LET a == AddPagesFrom(<<>>, pages, start - 1, end)
    IN  IF a.ok THEN a ELSE [a EXCEPT !.page = a.page - 1]

add_pages(pages, start, end) == AddPagesFrom(<<>>, pages, start - 1, end)

\* write_pdf without its check of path.exists().
write_pdf_unchecked(f, d, path, doc, ow) ==
    [ok |-> TRUE, fs |-> (path :> doc) @@ f, dirs |-> d \cup {path[1]}]

\* write_pdf: [ok, fs, dirs].
write_pdf(f, d, path, doc, ow) ==
    IF Exists(f, path) /\ ~ow
    THEN [ok |-> FALSE, fs |-> f, dirs |-> d]
    ELSE [ok |-> TRUE, fs |-> (path :> doc) @@ f, dirs |-> d \cup {path[1]}]

\* The label without the end of the range.
LabelStartOnly(start, end) == Str(start)

\* f"{start}" if start == end else f"{start}-{end}"
Label(start, end) ==
    IF start = end THEN Str(start) ELSE Str(start) \o <<"-">> \o Str(end)

PagePath(stem, page_no) ==
    <<DestDir, stem \o <<"_", "p">> \o Str(page_no) \o PdfExt>>

RangePath(stem, start, end) ==
    <<DestDir, stem \o <<"_">> \o Label(start, end) \o PdfExt>>

\* The ranges parse_ranges can return: 0 <= start <= end.
Ranges == {r \in (0..(MaxPages + 1)) \X (0..(MaxPages + 1)) : r[1] <= r[2]}

RangeSeqs == UNION {[1..k -> Ranges] : k \in 1..MaxRanges}

\* The path of unit k of a run (a page, or a range).
UnitPath(rs, k) ==
    IF rs.none THEN PagePath(Stem(SrcName), k)
    ELSE RangePath(Stem(SrcName), rs.list[k][1], rs.list[k][2])

NoRanges == [none |-> TRUE, list |-> <<>>]

NoPath == [none |-> TRUE, path |-> <<"cwd", <<>>>>]

SplitOthers ==
    /\ ranges_str = <<>> /\ parsed = [ok |-> FALSE, ranges |-> <<>>]
    /\ listing = <<>> /\ output_pdf = <<"cwd", <<>>>>
    /\ input_path = <<"cwd", <<>>>> /\ output_path = NoPath
    /\ force = FALSE /\ level = None /\ ret = -1

InitSplit ==
    /\ tool = "split" /\ pc = "start" /\ err = NoErr /\ exitCode = -1
    /\ reader = <<>> /\ idx = 0 /\ written = <<>>
    /\ overwrite \in BOOLEAN
    /\ \E byPage \in BOOLEAN :
       \E n \in 1..(IF byPage THEN MaxBurstPages ELSE MaxPages) :
         /\ ranges \in (IF byPage THEN {NoRanges}
                        ELSE {[none |-> FALSE, list |-> l] : l \in RangeSeqs})
         /\ \E present \in BOOLEAN :
            \E pre \in 0..(IF ranges.none THEN n ELSE Len(ranges.list)) :
              LET src == IF present THEN (SrcPath :> SrcDoc(n)) ELSE NoFiles
                  old == IF pre = 0 THEN NoFiles
                         ELSE (UnitPath(ranges, pre) :> OldDoc)
              IN  /\ present \/ pre = 0
                  /\ fs = src @@ old
                  /\ dirs \in (IF pre = 0 THEN {{"in"}, {"in", DestDir}}
                               ELSE {{"in", DestDir}})
    /\ fs0 = fs
    /\ SplitOthers

SplitFrame ==
    UNCHANGED <<tool, ranges_str, parsed, ranges, overwrite, fs0, listing,
                output_pdf, input_path, output_path, force, level, ret>>

\* split_pdf, lines 75-76: open the source, create the output directory.
SplitBegin ==
    /\ tool = "split" /\ pc = "start"
    /\ IF Exists(fs, SrcPath)
       THEN /\ reader' = fs[SrcPath]
            /\ dirs' = dirs \cup {DestDir}
            /\ idx' = 1
            /\ pc' = "loop"
            /\ UNCHANGED <<err, exitCode>>
       ELSE /\ err' = Raise("FileNotFoundError")
            /\ pc' = "exit"
            /\ exitCode' = 1
            /\ UNCHANGED <<reader, dirs, idx>>
    /\ UNCHANGED <<written, fs>>
    /\ SplitFrame

\* One turn of the by-page loop.
SplitPage ==
    /\ tool = "split" /\ pc = "loop" /\ ranges.none /\ idx <= Len(reader)
    /\ LET w == write_pdf(fs, dirs, PagePath(Stem(SrcName), idx), <<reader[idx]>>,
                          overwrite)
       IN  IF w.ok
           THEN /\ fs' = w.fs /\ dirs' = w.dirs
                /\ written' = Append(written, PagePath(Stem(SrcName), idx))
                /\ idx' = idx + 1
                /\ UNCHANGED <<pc, err, exitCode>>
           ELSE /\ err' = Raise("FileExistsError")
                /\ pc' = "exit" /\ exitCode' = 1
                /\ UNCHANGED <<fs, dirs, written, idx>>
    /\ UNCHANGED reader
    /\ SplitFrame

\* One turn of the by-range loop.
SplitRange ==
    /\ tool = "split" /\ pc = "loop" /\ ~ranges.none /\ idx <= Len(ranges.list)
    /\ LET start == ranges.list[idx][1]
           end   == ranges.list[idx][2]
           a     == add_pages(reader, start, end)
           path  == RangePath(Stem(SrcName), start, end)
           w     == write_pdf(fs, dirs, path, a.doc, overwrite)
       IN  IF ~a.ok
           THEN /\ err' = [kind |-> "IndexError", page |-> a.page]
                /\ pc' = "exit" /\ exitCode' = 1
                /\ UNCHANGED <<fs, dirs, written, idx>>
           ELSE IF w.ok
           THEN /\ fs' = w.fs /\ dirs' = w.dirs
                /\ written' = Append(written, path)
                /\ idx' = idx + 1
                /\ UNCHANGED <<pc, err, exitCode>>
           ELSE /\ err' = Raise("FileExistsError")
                /\ pc' = "exit" /\ exitCode' = 1
                /\ UNCHANGED <<fs, dirs, written, idx>>
    /\ UNCHANGED reader
    /\ SplitFrame

\* The loop is over: cli() prints "Done." and the process ends.
SplitDone ==
    /\ tool = "split" /\ pc = "loop"
    /\ idx > (IF ranges.none THEN Len(reader) ELSE Len(ranges.list))
    /\ pc' = "exit" /\ exitCode' = 0
    /\ UNCHANGED <<err, reader, idx, written, dirs, fs>>
    /\ SplitFrame

NextSplit == SplitBegin \/ SplitPage \/ SplitRange \/ SplitDone

SpecSplit == InitSplit /\ [][NextSplit]_vars

\* ------------------------------------------------------------- parse_ranges

ParseOthers ==
    /\ reader = <<>> /\ ranges = NoRanges /\ overwrite = FALSE /\ idx = 0
    /\ written = <<>> /\ dirs = {} /\ fs = NoFiles /\ fs0 = NoFiles
    /\ listing = <<>> /\ output_pdf = <<"cwd", <<>>>>
    /\ input_path = <<"cwd", <<>>>> /\ output_path = NoPath
    /\ force = FALSE /\ level = None /\ ret = -1

InitParse ==
    /\ tool = "parse" /\ pc = "start" /\ err = NoErr /\ exitCode = -1
    /\ ranges_str \in Strings(MaxSpecLen)
    /\ parsed = [ok |-> FALSE, ranges |-> <<>>]
    /\ ParseOthers

\* cli(), line 113: the call of parse_ranges; a ValueError ends the process.
ParseRanges ==
    /\ tool = "parse" /\ pc = "start"
    /\ parsed' = parse_ranges(ranges_str)
    /\ pc' = "parsed"
    /\ err' = IF parsed'.ok THEN NoErr ELSE Raise("ValueError")
    /\ exitCode' = IF parsed'.ok THEN exitCode ELSE 1
    /\ UNCHANGED <<tool, ranges_str, reader, ranges, overwrite, idx, written, dirs,
                   fs, fs0, listing, output_pdf, input_path, output_path, force,
                   level, ret>>

NextParse == ParseRanges

SpecParse == InitParse /\ [][NextParse]_vars

\* ---------------------------------------------------------- merge_directory

IMAGE_EXTS ==
    { <<".", "j", "p", "g">>, <<".", "j", "p", "e", "g">>, <<".", "p", "n", "g">>,
      <<".", "t", "i", "f">>, <<".", "t", "i", "f", "f">> }

InputDir == "in"

\* The files a run may find in input_dir, with what each holds: the pages of
\* a document, or the frames of an image.
Pool ==
    ( <<"a", ".", "p", "d", "f">> :> <<<<"a", 1>>, <<"a", 2>>, <<"a", 3>>>> ) @@
    ( <<"A", ".", "P", "D", "F">> :> <<<<"A", 1>>, <<"A", 2>>>> ) @@
    ( <<"b", ".", "p", "n", "g">> :> <<<<"b", 1>>>> ) @@
    ( <<"t", ".", "t", "i", "f">> :> <<<<"t", 1>>, <<"t", 2>>>> ) @@
    ( <<"n", ".", "t", "x", "t">> :> <<<<"n", 1>>>> )

SubDirName == <<"s">>

OutName == <<"m", ".", "p", "d", "f">>

\* images_to_pdf_bytes: a one-page document of the image (Image.save without
\* save_all keeps the first frame).
images_to_pdf_bytes(image) == <<image[1]>>

\* add_file_to_merger: the merger's pages after f.
add_file_to_merger(f, name, merger) ==
    LET suffix == Lower(Suffix(name))
    IN  IF suffix = PdfExt THEN merger \o f[<<InputDir, name>>]
        ELSE IF suffix \in IMAGE_EXTS
        THEN merger \o images_to_pdf_bytes(f[<<InputDir, name>>])
        ELSE merger

\* The sort key of merge_directory: p.name.lower().
SortKey(name) == Lower(name)

\* x put into the sorted list s behind every element whose key is not greater.
RECURSIVE InsertByKey(_, _)
InsertByKey(x, s) ==
    IF s = <<>> THEN <<x>>
    ELSE IF StrLess(SortKey(x), SortKey(s[1])) THEN <<x>> \o s
    ELSE <<s[1]>> \o InsertByKey(x, Tail(s))

\* sorted(l, key=...): stable.
RECURSIVE SortedByKey(_)
SortedByKey(l) ==
    IF l = <<>> THEN <<>>
    ELSE InsertByKey(l[Len(l)], SortedByKey(SubSeq(l, 1, Len(l) - 1)))

\* [p for p in input_dir.iterdir() if p.is_file()]
RECURSIVE OnlyFiles(_, _)
OnlyFiles(f, l) ==
    IF l = <<>> THEN <<>>
    ELSE IF Exists(f, <<InputDir, l[1]>>) THEN <<l[1]>> \o OnlyFiles(f, Tail(l))
    ELSE OnlyFiles(f, Tail(l))

\* The loop over files, lines 72-73.
RECURSIVE MergeAll(_, _, _)
MergeAll(f, files, merger) ==
    IF files = <<>> THEN merger
    ELSE MergeAll(f, Tail(files), add_file_to_merger(f, files[1], merger))

\* The pages merge_directory writes when iterdir() enumerates as l.
MergedPages(f, l) == MergeAll(f, SortedByKey(OnlyFiles(f, l)), <<>>)

RECURSIVE Perms(_)
Perms(S) ==
    IF S = {} THEN {<<>>}
    ELSE UNION {{<<x>> \o q : q \in Perms(S \ {x})} : x \in S}

MergeOthers ==
    /\ ranges_str = <<>> /\ parsed = [ok |-> FALSE, ranges |-> <<>>]
    /\ reader = <<>> /\ ranges = NoRanges /\ overwrite = FALSE /\ idx = 0
    /\ input_path = <<"cwd", <<>>>> /\ output_path = NoPath
    /\ force = FALSE /\ level = None /\ ret = -1

InitMerge ==
    /\ tool = "merge" /\ pc = "start" /\ err = NoErr /\ exitCode = -1
    /\ written = <<>>
    /\ \E isDir \in BOOLEAN :
       \E names \in SUBSET (DOMAIN Pool) :
       \E sub \in BOOLEAN :
       \E old \in BOOLEAN :
         /\ isDir \/ (names = {} /\ ~sub)
         /\ dirs = {"cwd"} \cup (IF isDir THEN {InputDir} ELSE {})
         /\ fs = [p \in {<<InputDir, n>> : n \in names} |-> Pool[p[2]]]
                 @@ (IF old THEN (<<"cwd", OutName>> :> OldDoc) ELSE NoFiles)
         /\ listing \in Perms(names \cup (IF sub THEN {SubDirName} ELSE {}))
    /\ output_pdf \in { <<"cwd", OutName>>, <<InputDir, OutName>>,
                        <<InputDir, <<"a", ".", "p", "d", "f">>>>,
                        <<"gone", OutName>> }
    /\ fs0 = fs
    /\ MergeOthers

MergeFrame ==
    UNCHANGED <<tool, ranges_str, parsed, reader, ranges, overwrite, idx, dirs,
                fs0, listing, output_pdf, input_path, output_path, force, level,
                ret>>

\* main(), lines 102-103.
MergeCheckDir ==
    /\ tool = "merge" /\ pc = "start"
    /\ IF InputDir \in dirs
       THEN pc' = "merge" /\ UNCHANGED <<err, exitCode>>
       ELSE pc' = "exit" /\ err' = Raise("SystemExit") /\ exitCode' = 1
    /\ UNCHANGED <<written, fs>>
    /\ MergeFrame

\* merge_directory under main()'s try: an exception of the write becomes
\* SystemExit("Failed to merge: ...").
MergeDirectory ==
    /\ tool = "merge" /\ pc = "merge"
    /\ LET files == SortedByKey(OnlyFiles(fs, listing))
       IN  IF files = <<>>
           THEN /\ err' = Raise("SystemExit") /\ exitCode' = 1
                /\ UNCHANGED <<written, fs>>
           ELSE IF output_pdf[1] \notin dirs
           THEN /\ err' = Raise("FileNotFoundError") /\ exitCode' = 1
                /\ UNCHANGED <<written, fs>>
           ELSE /\ fs' = (output_pdf :> MergeAll(fs, files, <<>>)) @@ fs
                /\ written' = Append(written, output_pdf)
                /\ exitCode' = 0
                /\ UNCHANGED err
    /\ pc' = "exit"
    /\ MergeFrame

NextMerge == MergeCheckDir \/ MergeDirectory

SpecMerge == InitMerge /\ [][NextMerge]_vars

\* ------------------------------------------------------------- compress_pdf

COMPRESSION_LEVELS == {"screen", "ebook", "printer", "prepress", "default"}

\* f"{base_name}_compressed{ext}" beside the input.
DefaultOutput(path) ==
    <<path[1], Stem(path[2])
               \o <<"_", "c", "o", "m", "p", "r", "e", "s", "s", "e", "d">>
               \o Suffix(path[2])>>

\* What Ghostscript can do: write the whole output, write an empty output or
\* none and exit 0, or exit non-zero having written nothing or a part.
GsOutcomes == {"ok", "empty", "nofile", "fail", "partial"}

\* The optimized document Ghostscript writes for doc.
GsDoc(doc) == [i \in 1..Len(doc) |-> <<"gs", doc[i][2]>>]

Remove(f, path) == [p \in (DOMAIN f) \ {path} |-> f[p]]

CompressOthers ==
    /\ ranges_str = <<>> /\ parsed = [ok |-> FALSE, ranges |-> <<>>]
    /\ reader = <<>> /\ ranges = NoRanges /\ overwrite = FALSE /\ idx = 0
    /\ listing = <<>> /\ output_pdf = <<"cwd", <<>>>>

InitCompress ==
    /\ tool = "compress" /\ pc = "start" /\ err = NoErr /\ exitCode = -1
    /\ written = <<>> /\ ret = -1
    /\ dirs = {"cwd"}
    /\ input_path = <<"cwd", SrcName>>
    /\ output_path \in {NoPath} \cup
         {[none |-> FALSE, path |-> q] :
            q \in {input_path, <<"cwd", OutName>>, <<"gone", OutName>>}}
    /\ force \in BOOLEAN
    /\ level \in COMPRESSION_LEVELS
    /\ \E n \in 0..MaxPages :
       \E old \in BOOLEAN :
         LET target == IF output_path.none THEN DefaultOutput(input_path)
                       ELSE output_path.path
         IN  /\ old => target[1] \in dirs
             /\ fs = (IF n > 0 THEN (input_path :> SrcDoc(n)) ELSE NoFiles)
                     @@ (IF old THEN (target :> OldDoc) ELSE NoFiles)
    /\ fs0 = fs
    /\ CompressOthers

CompressFrame ==
    UNCHANGED <<tool, ranges_str, parsed, reader, ranges, overwrite, idx, dirs,
                fs0, listing, output_pdf, input_path, force, level>>

\* compress_pdf, lines 54-73, and main()'s handler of what it raises.
CompressValidate ==
    /\ tool = "compress" /\ pc = "start"
    /\ LET out == IF output_path.none THEN DefaultOutput(input_path)
                  ELSE output_path.path
       IN  IF ~Exists(fs, input_path)
           THEN /\ err' = Raise("FileNotFoundError") /\ ret' = 1 /\ pc' = "returned"
                /\ UNCHANGED output_path
           ELSE IF Exists(fs, out) /\ ~force
           THEN /\ err' = Raise("FileExistsError") /\ ret' = 1 /\ pc' = "returned"
                /\ output_path' = [none |-> FALSE, path |-> out]
           ELSE IF level \notin COMPRESSION_LEVELS
           THEN /\ err' = Raise("ValueError") /\ ret' = 1 /\ pc' = "returned"
                /\ output_path' = [none |-> FALSE, path |-> out]
           ELSE /\ pc' = "gs"
                /\ output_path' = [none |-> FALSE, path |-> out]
                /\ UNCHANGED <<err, ret>>
    /\ UNCHANGED <<exitCode, written, fs>>
    /\ CompressFrame

\* compress_pdf, lines 97-132: the Ghostscript run and what follows it.
RunGhostscript ==
    /\ tool = "compress" /\ pc = "gs"
    /\ \E o \in GsOutcomes :
         LET out   == output_path.path
             after == CASE o = "ok" -> (out :> GsDoc(fs[input_path])) @@ fs
                        [] o = "empty" -> (out :> <<>>) @@ fs
                        [] o = "partial" -> (out :> <<>>) @@ fs
                        [] OTHER -> fs
         IN  /\ (o \in {"ok", "empty", "partial"}) => out[1] \in dirs
             /\ IF o \in {"fail", "partial"}
                THEN /\ err' = Raise("CalledProcessError") /\ ret' = 1
                     /\ fs' = Remove(after, out)
                     /\ UNCHANGED written
                ELSE IF Exists(after, out)
                THEN /\ ret' = 0 /\ fs' = after
                     /\ written' = Append(written, out)
                     /\ UNCHANGED err
                ELSE /\ err' = Raise("FileNotFoundError") /\ ret' = 1
                     /\ fs' = after
                     /\ UNCHANGED written
    /\ pc' = "returned"
    /\ UNCHANGED <<exitCode, output_path>>
    /\ CompressFrame

\* Lines 170-171: the script calls main() and drops what it returns.
CompressExit ==
    /\ tool = "compress" /\ pc = "returned"
    /\ pc' = "exit" /\ exitCode' = 0
    /\ UNCHANGED <<err, ret, written, fs, output_path>>
    /\ CompressFrame

NextCompress == CompressValidate \/ RunGhostscript \/ CompressExit

SpecCompress == InitCompress /\ [][NextCompress]_vars

\* Split and compress, the two tools with a collision policy.
InitWriters == InitSplit \/ InitCompress

NextWriters == NextSplit \/ NextCompress

SpecWriters == InitWriters /\ [][NextWriters]_vars

\* ----------------------------------------------------------- the three tools

Init == InitParse \/ InitSplit \/ InitMerge \/ InitCompress

Next == NextParse \/ NextSplit \/ NextMerge \/ NextCompress

Spec == Init /\ [][Next]_vars

\* =================================================================== claims

\* The source document of a split run, as it was when the run started.
SourceDoc == fs0[SrcPath]

\* A by-range run that has opened its source.
ByRangeRun == tool = "split" /\ ~ranges.none /\ pc \in {"loop", "exit"} /\ idx >= 1

\* Range r lies within the source: 1 <= start <= end <= pageCount.
WithinSource(r) == 1 <= r[1] /\ r[1] <= r[2] /\ r[2] <= Len(SourceDoc)

\* <stem>_<start>.pdf or <stem>_<start>-<end>.pdf in the output directory.
NamedForRange(r) ==
    <<DestDir, <<"d", "_">>
               \o (IF r[1] = r[2] THEN Str(r[1]) ELSE Str(r[1]) \o <<"-">> \o Str(r[2]))
               \o <<".", "p", "d", "f">>>>

\* The output directory held no file when the run started.
DestWasEmpty == \A p \in DOMAIN fs0 : p[1] # DestDir

\* C4: in a by-range run the k-th completed write is the one of the k-th range
\* of the RangeSet, the range lies within the source, the file carries the
\* range's name and holds exactly source pages start..end in ascending order.
C4_RangeOutput ==
    ByRangeRun =>
      /\ Len(written) = (IF pc = "exit" /\ err = NoErr THEN Len(ranges.list) ELSE idx - 1)
      /\ \A k \in 1..Len(written) :
           LET r == ranges.list[k]
           IN  /\ WithinSource(r)
               /\ written[k] = NamedForRange(r)
               /\ Exists(fs, written[k])
               /\ Len(fs[written[k]]) = r[2] - r[1] + 1
               /\ \A j \in 1..Len(fs[written[k]]) :
                    fs[written[k]][j] = SourceDoc[r[1] + j - 1]

\* C4's case: a run that wrote a multi-page range and then a single page.
C4_Witness ==
    /\ ByRangeRun /\ pc = "exit" /\ err = NoErr
    /\ Len(written) = 2
    /\ ranges.list[1] = <<2, 3>> /\ ranges.list[2] = <<1, 1>>
    /\ fs[written[1]] = <<<<"d", 2>>, <<"d", 3>>>>

\* The pages range r asks for that the source does not have.
Offending(r) == {q \in r[1]..r[2] : q < 1 \/ q > Len(SourceDoc)}

\* C5: a by-range run that stopped at a range asking for a page out of bounds
\* raised the out-of-bounds error naming the first such page (1-based), left
\* the path of that range as it was before the run, and kept every document it
\* wrote for the earlier ranges; no range out of bounds is ever passed over.
C5_OutOfBounds ==
    ByRangeRun =>
      /\ \A k \in 1..Len(written) : Offending(ranges.list[k]) = {}
      /\ (pc = "exit" /\ idx <= Len(ranges.list) /\ Offending(ranges.list[idx]) # {}) =>
           LET r == ranges.list[idx]
           IN  /\ err.kind = "IndexError"
               /\ err.page \in Offending(r)
               /\ \A q \in Offending(r) : err.page <= q
               /\ exitCode = 1
               /\ Len(written) = idx - 1
               /\ Exists(fs, NamedForRange(r)) = Exists(fs0, NamedForRange(r))
               /\ Exists(fs, NamedForRange(r)) => fs[NamedForRange(r)] = fs0[NamedForRange(r)]
               /\ \A k \in 1..(idx - 1) :
                    /\ Exists(fs, NamedForRange(ranges.list[k]))
                    /\ fs[NamedForRange(ranges.list[k])]
                         = SubSeq(SourceDoc, ranges.list[k][1], ranges.list[k][2])

\* C5's case: the second range runs past the end of the source after the first
\* was written, and a file was already at the second range's path.
C5_Witness ==
    /\ ByRangeRun /\ pc = "exit" /\ idx = 2
    /\ err.kind = "IndexError" /\ err.page = Len(SourceDoc) + 1
    /\ ranges.list[2][1] <= Len(SourceDoc)
    /\ Len(written) = 1
    /\ Exists(fs, NamedForRange(ranges.list[2]))

\* A split run about to hand a document to write_pdf.
SplitWrites ==
    /\ tool = "split" /\ pc = "loop"
    /\ idx <= (IF ranges.none THEN Len(reader) ELSE Len(ranges.list))
    /\ ranges.none \/ WithinSource(ranges.list[idx])

\* The document that write is given.
SplitDocNow ==
    IF ranges.none THEN <<SourceDoc[idx]>>
    ELSE SubSeq(SourceDoc, ranges.list[idx][1], ranges.list[idx][2])

\* The output path compress checks.
CompressTarget ==
    IF output_path.none THEN DefaultOutput(input_path) ELSE output_path.path

C9_Run ==
    /\ ByRangeRun /\ pc = "exit" /\ Exists(fs0, SrcPath)
    /\ DestWasEmpty /\ ~overwrite
    /\ \A k \in 1..Len(ranges.list) : WithinSource(ranges.list[k])

C9_OnePerRange ==
    /\ err = NoErr /\ exitCode = 0
    /\ Len(written) = Len(ranges.list)
    /\ \A k \in 1..Len(ranges.list) : Exists(fs, NamedForRange(ranges.list[k]))

\* C9 as stated: every such run, also one that lists a range twice, completes
\* without error with one document per range.
C9_AnyRangeSetCompletes == C9_Run => C9_OnePerRange

NoRangeTwice ==
    \A j, k \in 1..Len(ranges.list) : j # k => ranges.list[j] # ranges.list[k]

\* C9 amended: every such run whose ranges are pairwise different, overlapping
\* or not, completes without error with one document per range, each with its
\* own path; a run that lists a range twice stops at the second listing with
\* the already-exists error.
C9_DistinctRangesComplete ==
    C9_Run =>
      IF NoRangeTwice
      THEN /\ C9_OnePerRange
           /\ Cardinality({written[k] : k \in 1..Len(written)}) = Len(ranges.list)
      ELSE /\ err.kind = "FileExistsError"
           /\ \E j \in 1..(idx - 1) : ranges.list[j] = ranges.list[idx]

\* C9's case: two overlapping ranges, both written.
C9_Witness ==
    /\ C9_Run /\ err = NoErr
    /\ ranges.list = << <<1, 2>>, <<1, 3>> >>
    /\ Len(written) = 2

\* A suffix add_file_to_merger resolves to a source.
Supported(name) == Lower(Suffix(name)) = PdfExt \/ Lower(Suffix(name)) \in IMAGE_EXTS

\* The files of input_dir that a merge run reads as sources.
MergeSources == {p \in DOMAIN fs0 : p[1] = InputDir /\ Supported(p[2])}

\* C1: a merge of a directory with no source (empty, or holding only files of
\* unsupported kinds) ends in an error with a non-zero exit, and no file was
\* created or changed.
C1_EmptyMergeFails ==
    (tool = "merge" /\ pc = "exit" /\ InputDir \in dirs /\ MergeSources = {}) =>
      (err # NoErr /\ exitCode # 0 /\ fs = fs0)

\* C2: the document a merge run wrote is the same for every order in which
\* the file system could have enumerated the same directory.
C2_SameForEveryEnumeration ==
    (tool = "merge" /\ pc = "exit" /\ err = NoErr) =>
      \A l \in Perms({listing[i] : i \in 1..Len(listing)}) :
        MergedPages(fs0, l) = fs[output_pdf]

\* The directory a by-page run wrote, as the input directory of a merge.
BurstAsInput ==
    [p \in {<<InputDir, written[k][2]>> : k \in 1..Len(written)}
       |-> fs[<<DestDir, p[2]>>]]

\* C3: a by-page run into an empty directory wrote the N documents
\* <stem>_p1 .. <stem>_pN, and their pages in the merge tool's file-name order
\* are the pages 1..N of the source.
C3_RoundTrip ==
    (tool = "split" /\ ranges.none /\ pc = "exit" /\ err = NoErr /\ DestWasEmpty) =>
      /\ Len(written) = Len(SourceDoc)
      /\ \A k \in 1..Len(written) :
           /\ written[k] = <<DestDir, <<"d", "_", "p">> \o Str(k) \o <<".", "p", "d", "f">>>>
           /\ fs[written[k]] = <<SourceDoc[k]>>
      /\ MergedPages(BurstAsInput, [k \in 1..Len(written) |-> written[k][2]]) = SourceDoc

\* C7: what parse returns has one range per comma-separated token, and every
\* range has 1 <= start <= end.
C7_ParsedRangesPositive ==
    (tool = "parse" /\ pc = "parsed" /\ parsed.ok) =>
      /\ Len(parsed.ranges) = Len(Split(ranges_str, ","))
      /\ \A k \in 1..Len(parsed.ranges) :
           1 <= parsed.ranges[k][1] /\ parsed.ranges[k][1] <= parsed.ranges[k][2]

\* C8: a tool run in which a failure was raised ends with a non-zero exit code.
C8_FailureExitsNonZero ==
    (pc = "exit" /\ err # NoErr) => exitCode # 0

\* The files a run reads as its sources.
SourcesRead ==
    CASE tool = "merge" -> IF InputDir \in dirs THEN MergeSources ELSE {}
      [] tool = "split" -> {SrcPath} \cap DOMAIN fs0
      [] tool = "compress" -> {input_path} \cap DOMAIN fs0
      [] OTHER -> {}

\* C10: when a run has ended, every file it read as a source holds what it
\* held before the run.
C10_SourcesUnchanged ==
    pc = "exit" => \A p \in SourcesRead : Exists(fs, p) /\ fs[p] = fs0[p]

====
